---- MODULE Spec2Model ----
(***************************************************************************)
(* Model of the autonomous poker agent (poker-agent.ts): HandEvaluator,    *)
(* StrategyEngine and the polling loop of PokerAgent, together with the    *)
(* external game authority the agent talks to through remoteFunction.      *)
(*                                                                         *)
(* Numbers.  Strengths, thresholds and probabilities are held in           *)
(* hundredths (0.6 is 60); chips, bets and pots are integers.  Products    *)
(* and quotients are compared by cross-multiplication and floors are       *)
(* integer divisions, so every comparison is the decimal one.  The input   *)
(* sets below hold only values on which the program's double arithmetic    *)
(* gives the same comparison and the same floor.                           *)
(*                                                                         *)
(* The game.  The authority plays one hand, from the lobby (WAITING)        *)
(* through the betting streets to SHOWDOWN, where it stays.                *)
(*                                                                         *)
(* Round trips.  A remoteFunction call is issued in one step and completes *)
(* (resolves or rejects) in a later one; the authority serves the request  *)
(* at the completion.  Between the two any other step may happen.          *)
(***************************************************************************)
EXTENDS Integers, Sequences, FiniteSets, Bags, TLC

VARIABLES
    server,        \* the authority's PublicState for this agent
    proc,          \* the process: "main" before start(), "running", "crashed",
                   \* "exited"
    currentState,  \* PokerAgent.currentState (Null or a PublicState)
    ticks,         \* the interval callbacks in flight (a bag of their states)
    config,        \* StrategyEngine.config
    stats,         \* StrategyEngine.stats
    shown,         \* the current hand's result has been shown to a tick's fetch
    observed,      \* the number of hands whose result a tick's fetch has shown
    acted,         \* the sink accepted an action in the agent's current turn
    refused,       \* the sink rejected an action in the agent's current turn
    din,           \* decide harness: the arguments of the call
    dout           \* decide harness: the bluff draw and the returned decision

vars == <<server, proc, currentState, ticks, config, stats, shown, observed,
          acted, refused, din, dout>>

----------------------------------------------------------------------------
(* Bounds of the model *)

MaxInFlight == 2
MaxRecords == 2

----------------------------------------------------------------------------
(* Values *)

\* this.currentState = null, and a tick that has destructured no snapshot
Null == [status |-> "null"]
Undefined == "undefined"
Me == "me"
Opp == "opp"

Card(r, s) == [rank |-> r, suit |-> s]
\* the sentinel '??': slice(0,-1) and slice(-1) both give "?"
Hidden == Card("?", "?")

Max(S) == CHOOSE x \in S : \A y \in S : y <= x
Min(S) == CHOOSE x \in S : \A y \in S : x <= y
MinOf(a, b) == IF a <= b THEN a ELSE b
MaxOf(a, b) == IF a >= b THEN a ELSE b

Range(s) == {s[i] : i \in DOMAIN s}

\* a sequence listing the elements of a set of integers, largest first
RECURSIVE SortDesc(_)
SortDesc(S) == IF S = {} THEN <<>> ELSE <<Max(S)>> \o SortDesc(S \ {Max(S)})

----------------------------------------------------------------------------
(* HandEvaluator *)

normalizeRank(rank) ==
    CASE rank = "2" -> 2 [] rank = "3" -> 3 [] rank = "4" -> 4
      [] rank = "5" -> 5 [] rank = "6" -> 6 [] rank = "7" -> 7
      [] rank = "8" -> 8 [] rank = "9" -> 9 [] rank = "10" -> 10
      [] rank = "J" -> 11 [] rank = "Q" -> 12 [] rank = "K" -> 13
      [] rank = "A" -> 14 [] OTHER -> 0

checkStraightDraw(sortedRanks) ==
    IF Len(sortedRanks) < 4 THEN FALSE
    ELSE \/ \E i \in 0..(Len(sortedRanks) - 4) :
              LET last == MinOf(i + 5, Len(sortedRanks))
              IN  sortedRanks[i + 1] - sortedRanks[last] <= 4
         \/ (14 \in Range(sortedRanks) /\ 2 \in Range(sortedRanks))

\* Object.values(rankCounts).sort((a, b) => b - a)
RECURSIVE SortCounts(_, _)
SortCounts(keys, cnt) ==
    IF keys = {} THEN <<>>
    ELSE LET k == CHOOSE x \in keys : \A y \in keys : cnt[y] <= cnt[x]
         IN  <<cnt[k]>> \o SortCounts(keys \ {k}, cnt)

\* counts[i]; a missing entry is undefined, which equals none of 2, 3, 4
CountAt(seq, i) == IF i + 1 \in DOMAIN seq THEN seq[i + 1] ELSE 0

\* the numeric rank and the suit of every card, in the order of the cards
ranks(cards) == [i \in DOMAIN cards |-> normalizeRank(cards[i].rank)]
suits(cards) == [i \in DOMAIN cards |-> cards[i].suit]

rankCounts(cards) ==
    LET rs == ranks(cards)
    IN  [r \in Range(rs) |-> Cardinality({i \in DOMAIN rs : rs[i] = r})]

counts(cards) ==
    LET cnt == rankCounts(cards)
    IN  SortCounts(DOMAIN cnt, cnt)

suitCounts(cards) ==
    LET ss == suits(cards)
    IN  [s \in Range(ss) |-> Cardinality({i \in DOMAIN ss : ss[i] = s})]

maxSuit(cards) == Max(Range(suitCounts(cards)))

sortedRanks(cards) == SortDesc(Range(ranks(cards)))

hasStraightDraw(cards) == checkStraightDraw(sortedRanks(cards))

\* a chain that scores every pair and every high card alike
CategoryFlatPairs(cards) ==
    LET c == counts(cards)
    IN  IF CountAt(c, 0) = 4 THEN 95
        ELSE IF CountAt(c, 0) = 3 /\ CountAt(c, 1) = 2 THEN 90
        ELSE IF maxSuit(cards) >= 5 THEN 85
        ELSE IF hasStraightDraw(cards) /\ Len(sortedRanks(cards)) >= 5 THEN 80
        ELSE IF CountAt(c, 0) = 3 THEN 70
        ELSE IF CountAt(c, 0) = 2 /\ CountAt(c, 1) = 2 THEN 60
        ELSE IF CountAt(c, 0) = 2 THEN 45
        ELSE 30

\* the strength of the made hand, before the draw bonuses: the first
\* category of the chain that matches
category(cards) ==
    LET c == counts(cards)
    IN  IF CountAt(c, 0) = 4 THEN 95
        ELSE IF CountAt(c, 0) = 3 /\ CountAt(c, 1) = 2 THEN 90
        ELSE IF maxSuit(cards) >= 5 THEN 85
        ELSE IF hasStraightDraw(cards) /\ Len(sortedRanks(cards)) >= 5 THEN 80
        ELSE IF CountAt(c, 0) = 3 THEN 70
        ELSE IF CountAt(c, 0) = 2 /\ CountAt(c, 1) = 2 THEN 60
        ELSE IF CountAt(c, 0) = 2 THEN
            \* Object.keys lists integer keys in ascending order
            LET cnt == rankCounts(cards)
                pairRank == Min({r \in DOMAIN cnt : cnt[r] = 2})
            IN  IF pairRank >= 10 THEN 55 ELSE 45
        ELSE LET highCard == Max(Range(ranks(cards)))
             IN  IF highCard >= 12 THEN 40 ELSE 30

\* draw bonuses that a made hand of three of a kind or better does not get
BonusesOnlyForWeakHands(cards, strength) ==
    IF strength >= 70 THEN strength
    ELSE MinOf(strength + (IF maxSuit(cards) = 4 THEN 15 ELSE 0)
                        + (IF hasStraightDraw(cards) THEN 10 ELSE 0), 100)

\* the bonuses for draws, then the clamp
withBonuses(cards, strength) ==
    LET flushDraw == IF maxSuit(cards) = 4 THEN strength + 15 ELSE strength
        straightDraw == IF hasStraightDraw(cards) THEN flushDraw + 10 ELSE flushDraw
    IN  MinOf(straightDraw, 100)

\* the cards that are not the hidden sentinel
visible(holeCards, communityCards) ==
    SelectSeq(holeCards \o communityCards, LAMBDA c : c # Hidden)

\* an evaluator that scores a single visible card as a hand
EvaluateFromOneCard(holeCards, communityCards) ==
    LET cards == visible(holeCards, communityCards)
    IN  IF Len(cards) < 1 THEN 30
        ELSE withBonuses(cards, category(cards))

\* an evaluator without the clamp
EvaluateUnclamped(holeCards, communityCards) ==
    LET cards == visible(holeCards, communityCards)
    IN  IF Len(cards) < 2 THEN 30
        ELSE category(cards) + (IF maxSuit(cards) = 4 THEN 15 ELSE 0)
                             + (IF hasStraightDraw(cards) THEN 10 ELSE 0)

evaluate(holeCards, communityCards) ==
    LET cards == visible(holeCards, communityCards)
    IN  IF Len(cards) < 2 THEN 30
        ELSE withBonuses(cards, category(cards))

----------------------------------------------------------------------------
(* StrategyEngine *)

getDefaultStrategy ==
    [raiseThreshold |-> 60, callThreshold |-> 40, foldThreshold |-> 30,
     bluffProbability |-> 15, aggressiveness |-> 50]

\* { action, amount? }: a decision carries an amount field or none
Plain(a) == [action |-> a]
Sized(a, amt) == [action |-> a, amount |-> amt]

\* a sizing that forgets the cap of 70% of the stack
RaiseUncapped(cfg, pot, chips, handStrength, currentBet) ==
    currentBet + (pot * (10000 + cfg.aggressiveness * handStrength)) \div 20000

\* a sizing that returns the increment alone, not the total bet
RaiseIncrementOnly(cfg, pot, chips, handStrength, currentBet) ==
    MinOf((pot * (10000 + cfg.aggressiveness * handStrength)) \div 20000,
          (chips * 7) \div 10)

\* floor(pot * 0.5 * (1 + aggressiveness * handStrength)) capped at
\* floor(chips * 0.7), added to currentBet
calculateRaiseAmount(cfg, pot, chips, handStrength, currentBet) ==
    LET raiseAmount == (pot * (10000 + cfg.aggressiveness * handStrength)) \div 20000
        maxBet == (chips * 7) \div 10
    IN  currentBet + MinOf(raiseAmount, maxBet)

\* the outcomes of Math.random() < bluffProbability, Math.random() in [0, 1)
BluffDraws(cfg) ==
    {b \in BOOLEAN : (b => cfg.bluffProbability > 0) /\ (~b => cfg.bluffProbability < 100)}

\* potOdds < n/100, potOdds being callAmount / (pot + callAmount) or 0
PotOddsBelow(callAmount, pot, n) ==
    IF callAmount > 0 THEN 100 * callAmount < n * (pot + callAmount) ELSE 0 < n

\* a decision that adds the bluff boost whatever the draw
DecideAlwaysBoosted(cfg, shouldBluff, handStrength, callAmount, pot, chips, currentBet) ==
    LET effectiveStrength == MinOf(handStrength + 30, 100)
    IN  IF callAmount = 0 THEN
            IF effectiveStrength >= cfg.raiseThreshold
            THEN Sized("RAISE",
                     calculateRaiseAmount(cfg, pot, chips, effectiveStrength, currentBet))
            ELSE Plain("CHECK")
        ELSE IF effectiveStrength >= cfg.raiseThreshold THEN
            IF 2 * callAmount < chips
            THEN Sized("RAISE",
                     calculateRaiseAmount(cfg, pot, chips, effectiveStrength, currentBet))
            ELSE Plain("CALL")
        ELSE IF effectiveStrength >= cfg.callThreshold THEN
            IF PotOddsBelow(callAmount, pot, 40) \/ 5 * callAmount < chips
            THEN Plain("CALL")
            ELSE Plain("FOLD")
        ELSE IF effectiveStrength >= cfg.foldThreshold THEN
            IF PotOddsBelow(callAmount, pot, 20) /\ 10 * callAmount < chips
            THEN Plain("CALL")
            ELSE Plain("FOLD")
        ELSE Plain("FOLD")

\* a decision that calls a medium hand at any price
DecideCallingAnyPrice(cfg, shouldBluff, handStrength, callAmount, pot, chips, currentBet) ==
    LET effectiveStrength ==
            IF shouldBluff THEN MinOf(handStrength + 30, 100) ELSE handStrength
    IN  IF callAmount = 0 THEN
            IF effectiveStrength >= cfg.raiseThreshold
            THEN Sized("RAISE",
                     calculateRaiseAmount(cfg, pot, chips, effectiveStrength, currentBet))
            ELSE Plain("CHECK")
        ELSE IF effectiveStrength >= cfg.raiseThreshold THEN
            IF 2 * callAmount < chips
            THEN Sized("RAISE",
                     calculateRaiseAmount(cfg, pot, chips, effectiveStrength, currentBet))
            ELSE Plain("CALL")
        ELSE IF effectiveStrength >= cfg.callThreshold THEN Plain("CALL")
        ELSE IF effectiveStrength >= cfg.foldThreshold THEN
            IF PotOddsBelow(callAmount, pot, 20) /\ 10 * callAmount < chips
            THEN Plain("CALL")
            ELSE Plain("FOLD")
        ELSE Plain("FOLD")

\* a decision that folds a strong hand when the call is too expensive to
\* raise over
DecideFoldingWhenExpensive(cfg, shouldBluff, handStrength, callAmount, pot, chips, currentBet) ==
    LET effectiveStrength ==
            IF shouldBluff THEN MinOf(handStrength + 30, 100) ELSE handStrength
    IN  IF callAmount = 0 THEN
            IF effectiveStrength >= cfg.raiseThreshold
            THEN Sized("RAISE",
                     calculateRaiseAmount(cfg, pot, chips, effectiveStrength, currentBet))
            ELSE Plain("CHECK")
        ELSE IF effectiveStrength >= cfg.raiseThreshold THEN
            IF 2 * callAmount < chips
            THEN Sized("RAISE",
                     calculateRaiseAmount(cfg, pot, chips, effectiveStrength, currentBet))
            ELSE Plain("FOLD")
        ELSE IF effectiveStrength >= cfg.callThreshold THEN
            IF PotOddsBelow(callAmount, pot, 40) \/ 5 * callAmount < chips
            THEN Plain("CALL")
            ELSE Plain("FOLD")
        ELSE IF effectiveStrength >= cfg.foldThreshold THEN
            IF PotOddsBelow(callAmount, pot, 20) /\ 10 * callAmount < chips
            THEN Plain("CALL")
            ELSE Plain("FOLD")
        ELSE Plain("FOLD")

\* a decision that folds a very weak hand even when checking is free
DecideFoldingWhenFree(cfg, shouldBluff, handStrength, callAmount, pot, chips, currentBet) ==
    LET effectiveStrength ==
            IF shouldBluff THEN MinOf(handStrength + 30, 100) ELSE handStrength
    IN  IF effectiveStrength < cfg.foldThreshold THEN Plain("FOLD")
        ELSE IF callAmount = 0 THEN
            IF effectiveStrength >= cfg.raiseThreshold
            THEN Sized("RAISE",
                     calculateRaiseAmount(cfg, pot, chips, effectiveStrength, currentBet))
            ELSE Plain("CHECK")
        ELSE IF effectiveStrength >= cfg.raiseThreshold THEN
            IF 2 * callAmount < chips
            THEN Sized("RAISE",
                     calculateRaiseAmount(cfg, pot, chips, effectiveStrength, currentBet))
            ELSE Plain("CALL")
        ELSE IF effectiveStrength >= cfg.callThreshold THEN
            IF PotOddsBelow(callAmount, pot, 40) \/ 5 * callAmount < chips
            THEN Plain("CALL")
            ELSE Plain("FOLD")
        ELSE IF PotOddsBelow(callAmount, pot, 20) /\ 10 * callAmount < chips
             THEN Plain("CALL")
             ELSE Plain("FOLD")

decide(cfg, shouldBluff, handStrength, callAmount, pot, chips, currentBet) ==
    LET effectiveStrength ==
            IF shouldBluff THEN MinOf(handStrength + 30, 100) ELSE handStrength
    IN  IF callAmount = 0 THEN
            IF effectiveStrength >= cfg.raiseThreshold
            THEN Sized("RAISE",
                     calculateRaiseAmount(cfg, pot, chips, effectiveStrength, currentBet))
            ELSE Plain("CHECK")
        ELSE IF effectiveStrength >= cfg.raiseThreshold THEN
            IF 2 * callAmount < chips
            THEN Sized("RAISE",
                     calculateRaiseAmount(cfg, pot, chips, effectiveStrength, currentBet))
            ELSE Plain("CALL")
        ELSE IF effectiveStrength >= cfg.callThreshold THEN
            IF PotOddsBelow(callAmount, pot, 40) \/ 5 * callAmount < chips
            THEN Plain("CALL")
            ELSE Plain("FOLD")
        ELSE IF effectiveStrength >= cfg.foldThreshold THEN
            IF PotOddsBelow(callAmount, pot, 20) /\ 10 * callAmount < chips
            THEN Plain("CALL")
            ELSE Plain("FOLD")
        ELSE Plain("FOLD")

\* an adaptation whose win-rate tests include the limits 0.3 and 0.7
AdaptAtTheLimits(cfg, st) ==
    IF st.totalHands > 0 /\ 10 * st.wins <= 3 * st.totalHands THEN
        [cfg EXCEPT !.raiseThreshold = MinOf(@ + 5, 80),
                    !.foldThreshold = MinOf(@ + 5, 50),
                    !.bluffProbability = MaxOf(@ - 5, 5)]
    ELSE IF st.totalHands > 0 /\ 10 * st.wins >= 7 * st.totalHands THEN
        [cfg EXCEPT !.raiseThreshold = MaxOf(@ - 5, 40),
                    !.aggressiveness = MinOf(@ + 10, 100)]
    ELSE cfg

\* an adaptation that steps the parameters without clamping them
AdaptUnclamped(cfg, st) ==
    IF st.totalHands > 0 /\ 10 * st.wins < 3 * st.totalHands THEN
        [cfg EXCEPT !.raiseThreshold = @ + 5,
                    !.foldThreshold = @ + 5,
                    !.bluffProbability = @ - 5]
    ELSE IF st.totalHands > 0 /\ 10 * st.wins > 7 * st.totalHands THEN
        [cfg EXCEPT !.raiseThreshold = @ - 5,
                    !.aggressiveness = @ + 10]
    ELSE cfg

\* winRate < 0.3 is 10 * wins < 3 * totalHands, winRate > 0.7 is
\* 10 * wins > 7 * totalHands; winRate is 0.5 before the first hand
adaptStrategy(cfg, st) ==
    IF st.totalHands > 0 /\ 10 * st.wins < 3 * st.totalHands THEN
        [cfg EXCEPT !.raiseThreshold = MinOf(@ + 5, 80),
                    !.foldThreshold = MinOf(@ + 5, 50),
                    !.bluffProbability = MaxOf(@ - 5, 5)]
    ELSE IF st.totalHands > 0 /\ 10 * st.wins > 7 * st.totalHands THEN
        [cfg EXCEPT !.raiseThreshold = MaxOf(@ - 5, 40),
                    !.aggressiveness = MinOf(@ + 10, 100)]
    ELSE cfg

\* a recordResult without the else: every hand counts as a loss too
RecordResultAlwaysLosing(st, won) ==
    [st EXCEPT !.totalHands = @ + 1,
               !.wins = IF won THEN @ + 1 ELSE @,
               !.losses = @ + 1]

\* a recordResult with the call of adaptStrategy enabled
RecordResultAdapting(cfg, st, won) ==
    adaptStrategy(cfg,
                  [st EXCEPT !.totalHands = @ + 1,
                             !.wins = IF won THEN @ + 1 ELSE @,
                             !.losses = IF won THEN @ ELSE @ + 1])

\* this.config after recordResult: untouched, the call of adaptStrategy at
\* line 327 being commented out
recordResultConfig(cfg, st, won) == cfg

recordResult(st, won) ==
    [st EXCEPT !.totalHands = @ + 1,
               !.wins = IF won THEN @ + 1 ELSE @,
               !.losses = IF won THEN @ ELSE @ + 1]

\* getStats: the counters and winRate, ((wins / totalHands) * 100).toFixed(1)
\* + '%' or '0%'.  winRate is held in tenths of a percent: toFixed(1) rounds
\* to the nearest tenth, and no ratio of the counts modelled lies halfway.
getStats(st) ==
    [wins |-> st.wins, losses |-> st.losses, totalHands |-> st.totalHands,
     successfulBluffs |-> st.successfulBluffs, failedBluffs |-> st.failedBluffs,
     winRate |-> IF st.totalHands > 0
                 THEN (2000 * st.wins + st.totalHands) \div (2 * st.totalHands)
                 ELSE 0]

----------------------------------------------------------------------------
(* The game authority: PublicState snapshots *)

Betting == {"PREFLOP", "FLOP", "TURN", "RIVER"}
Resting == {"WAITING", "SHOWDOWN"}

PhaseRank(status) ==
    CASE status = "WAITING" -> 0 [] status = "PREFLOP" -> 1 [] status = "FLOP" -> 2
      [] status = "TURN" -> 3 [] status = "RIVER" -> 4 [] status = "SHOWDOWN" -> 5

Player(chips, bet, holeCards, folded, allIn) ==
    [chips |-> chips, bet |-> bet, holeCards |-> holeCards,
     folded |-> folded, allIn |-> allIn, ready |-> FALSE]

\* The fields of PublicState the agent reads.  winnerInfo is the set of
\* accounts the string names, {} for null; currentTurn indexes seats from 0.
State(status, players, currentTurn, pot, communityCards, currentBet, winnerInfo) ==
    [status |-> status, players |-> players, seats |-> <<Me, Opp>>,
     currentTurn |-> currentTurn, pot |-> pot, communityCards |-> communityCards,
     currentBet |-> currentBet, winnerInfo |-> winnerInfo, myAccount |-> Me]

Seated(p) == [a \in {Me} |-> p]
NotSeated == [a \in {} |-> Player(0, 0, <<>>, FALSE, FALSE)]

KingPair == <<Card("K", "s"), Card("K", "h")>>
SevenDeuce == <<Card("7", "c"), Card("2", "d")>>
AceKing == <<Card("A", "h"), Card("K", "h")>>
HeartBoard == <<Card("Q", "h"), Card("7", "h"), Card("2", "h"), Card("9", "c")>>
Flop == <<Card("Q", "h"), Card("7", "h"), Card("2", "s")>>

Scenes ==
    { State("WAITING", NotSeated, 0, 0, <<>>, 0, {}),
      State("WAITING", Seated(Player(1000, 0, <<>>, FALSE, FALSE)), 0, 0, <<>>, 0, {}),
      State("PREFLOP", Seated(Player(1000, 0, KingPair, FALSE, FALSE)), 0, 30, <<>>, 20, {}),
      State("PREFLOP", Seated(Player(990, 10, SevenDeuce, FALSE, FALSE)), 1, 30, <<>>, 20, {}),
      State("FLOP", Seated(Player(980, 0, <<Hidden, Hidden>>, FALSE, FALSE)), 0, 40, Flop, 0, {}),
      State("FLOP", Seated(Player(980, 0, <<Card("K", "s"), Hidden>>, FALSE, FALSE)), 0, 50, Flop, 10, {}),
      State("TURN", Seated(Player(980, 0, SevenDeuce, TRUE, FALSE)), 0, 60, HeartBoard, 10, {}),
      State("TURN", Seated(Player(0, 0, KingPair, FALSE, TRUE)), 0, 2000, HeartBoard, 0, {}),
      State("RIVER", Seated(Player(980, 0, AceKing, FALSE, FALSE)), 0, 0, HeartBoard, 0, {}),
      State("SHOWDOWN", Seated(Player(1040, 0, KingPair, FALSE, FALSE)), 0, 0, HeartBoard, 0, {Me}),
      State("SHOWDOWN", Seated(Player(960, 0, KingPair, FALSE, FALSE)), 0, 0, HeartBoard, 0, {Opp}),
      State("SHOWDOWN", Seated(Player(980, 0, KingPair, FALSE, FALSE)), 0, 60, HeartBoard, 0, {}) }

\* seats[currentTurn]
SeatAt(s) == IF s.currentTurn + 1 \in DOMAIN s.seats THEN s.seats[s.currentTurn + 1]
             ELSE Undefined

HasMe(s) == s.myAccount \in DOMAIN s.players

WithReady(s, r) ==
    IF HasMe(s) THEN [s EXCEPT !.players[s.myAccount].ready = r] ELSE s

ReadyOf(s) == HasMe(s) /\ s.players[s.myAccount].ready

\* the order of the phases of a hand, from the lobby to the showdown
Follows(from, to) ==
    \/ from = "WAITING" /\ to \in {"WAITING", "PREFLOP"}
    \/ from = "SHOWDOWN" /\ to = "SHOWDOWN"
    \/ from \in Betting /\ PhaseRank(to) >= PhaseRank(from)

\* The authority moves the game on to another snapshot, later in the hand.
\* A move that leaves the turn with this agent gives it a new turn.  The
\* ready flags are cleared when the hand starts and stay clear until the
\* agent toggles its own after the hand.
Authority ==
    \E sc \in Scenes :
        LET newHand == server.status \in Resting /\ sc.status = "PREFLOP"
            newTurn == sc.status \in Betting /\ SeatAt(sc) = Me
            rdy == sc.status \in Resting /\ server.status \in Resting
                   /\ ReadyOf(server)
            next == WithReady(sc, rdy)
        IN  /\ Follows(server.status, sc.status)
            /\ next # server
            /\ server' = next
            /\ shown' = IF newHand THEN FALSE ELSE shown
            /\ acted' = IF newTurn THEN FALSE ELSE acted
            /\ refused' = IF newTurn THEN FALSE ELSE refused
            /\ UNCHANGED <<proc, currentState, ticks, config, stats, observed,
                           din, dout>>

----------------------------------------------------------------------------
(* PokerAgent *)

NoAct == [action |-> "none"]

\* An interval callback in flight.  pc is the await it is suspended at:
\* "fetch" (line 470), "toggle" (495), "refetch" (496), "action" (408).
\* status is the callback's local of line 474 and act the message it sent
\* to the action sink.  nsub and ntog count the callback's action
\* submissions and ready-toggles; retry tells that the sink had rejected an
\* action of this turn before the callback submitted.
NewTick ==
    [pc |-> "fetch", status |-> "null", act |-> NoAct,
     nsub |-> 0, ntog |-> 0, retry |-> FALSE]

One(t) == SetToBag({t})
InFlight == BagToSet(ticks)
Ended(t) == ticks (-) One(t)
Moved(t, u) == (ticks (-) One(t)) (+) One(u)

\* updateState: the fetched snapshot replaces currentState; a failed fetch
\* is swallowed and leaves currentState as it was
updateState(ok) == IF ok THEN server ELSE currentState

MyTurn(cs) == SeatAt(cs) = cs.myAccount

\* a participant test that overlooks the folded flag
AbleToActThoughFolded(cs) ==
    /\ HasMe(cs)
    /\ ~cs.players[cs.myAccount].allIn

AbleToAct(cs) ==
    /\ HasMe(cs)
    /\ ~cs.players[cs.myAccount].folded
    /\ ~cs.players[cs.myAccount].allIn

hasHiddenCard(me) == \E i \in DOMAIN me.holeCards : me.holeCards[i] = Hidden

\* a fallback that folds whatever is owed
HiddenFallbackFolds(cs) == Plain("FOLD")

\* lines 432-437: CHECK when nothing is owed, else FOLD
HiddenFallback(cs) ==
    LET me == cs.players[cs.myAccount]
        callAmount == cs.currentBet - me.bet
    IN  Plain(IF callAmount = 0 THEN "CHECK" ELSE "FOLD")

\* lines 459-463: a RAISE is sent with its amount when the amount is truthy
Execute(decision) ==
    IF decision.action = "RAISE" /\ "amount" \in DOMAIN decision /\ decision.amount # 0
    THEN Sized("RAISE", decision.amount)
    ELSE Plain(decision.action)

\* The messages autonomousDecision may send to the action sink on snapshot
\* cs, one per outcome of the bluff draw; NoAct when it returns without
\* sending.
autonomousDecision(cs, cfg) ==
    IF cs = Null THEN {NoAct}
    ELSE IF ~MyTurn(cs) THEN {NoAct}
    ELSE IF ~AbleToAct(cs) THEN {NoAct}
    ELSE LET me == cs.players[cs.myAccount]
         IN  IF hasHiddenCard(me) THEN {HiddenFallback(cs)}
             ELSE LET handStrength == evaluate(me.holeCards, cs.communityCards)
                      callAmount == cs.currentBet - me.bet
                  IN  {Execute(decide(cfg, b, handStrength, callAmount, cs.pot,
                                      me.chips, cs.currentBet)) :
                          b \in BluffDraws(cfg)}

\* main(), lines 585-587: one updateState, then start()
MainUpdateState ==
    /\ proc = "main"
    /\ \E ok \in BOOLEAN : currentState' = updateState(ok)
    /\ proc' = "running"
    /\ UNCHANGED <<server, ticks, config, stats, shown, observed, acted, refused,
                   din, dout>>

\* setInterval fires: the callback starts and issues its fetch.  The timer
\* does not wait for an earlier callback to settle.
TimerFires ==
    /\ proc = "running"
    /\ BagCardinality(ticks) < MaxInFlight
    /\ ticks' = ticks (+) One(NewTick)
    /\ UNCHANGED <<server, proc, currentState, config, stats, shown, observed,
                   acted, refused, din, dout>>

\* status === 'SHOWDOWN' && winnerInfo
ShowsResult(cs) == cs.status = "SHOWDOWN" /\ cs.winnerInfo # {}

\* me && !me.ready
ShouldToggle(cs) == HasMe(cs) /\ ~cs.players[cs.myAccount].ready

\* lines 500-503, status being the callback's local: the callback sends
\* msg and waits for the sink, or ends
Decide(t, status, cs) ==
    \E msg \in (IF status \notin Resting THEN autonomousDecision(cs, config)
                ELSE {NoAct}) :
        IF msg = NoAct
        THEN ticks' = Ended(t)
        ELSE ticks' = Moved(t, [t EXCEPT !.pc = "action", !.status = status,
                                         !.act = msg, !.nsub = @ + 1,
                                         !.retry = refused])

\* Lines 470-503 from the completion of the fetch (ok: it resolved) to the
\* next await or the end of the callback.
TickFetched(t, ok) ==
    LET cs == updateState(ok)
    IN  /\ proc = "running"
        /\ t.pc = "fetch"
        /\ currentState' = cs
        /\ shown' = (shown \/ (ok /\ ShowsResult(cs)))
        /\ observed' = IF ok /\ ShowsResult(cs) /\ ~shown
                       THEN observed + 1 ELSE observed
        /\ IF cs = Null THEN
               /\ ticks' = Ended(t)
               /\ UNCHANGED <<stats, config>>
           ELSE IF cs.status \in Resting THEN
               /\ ShowsResult(cs) => stats.totalHands < MaxRecords
               /\ stats' = IF ShowsResult(cs)
                           THEN recordResult(stats, cs.myAccount \in cs.winnerInfo)
                           ELSE stats
               /\ config' = IF ShowsResult(cs)
                            THEN recordResultConfig(config, stats,
                                                    cs.myAccount \in cs.winnerInfo)
                            ELSE config
               /\ IF ShouldToggle(cs)
                  THEN ticks' = Moved(t, [t EXCEPT !.pc = "toggle",
                                                   !.status = cs.status, !.ntog = @ + 1])
                  ELSE ticks' = Ended(t)
           ELSE
               /\ UNCHANGED <<stats, config>>
               /\ Decide(t, cs.status, cs)
        /\ UNCHANGED <<server, proc, acted, refused, din, dout>>

\* toggleReady resolves: the authority flips the flag, and the callback
\* issues the re-fetch of line 496
ToggleApplied(t) ==
    /\ proc = "running"
    /\ t.pc = "toggle"
    /\ HasMe(server)
    /\ server' = WithReady(server, ~ReadyOf(server))
    /\ ticks' = Moved(t, [t EXCEPT !.pc = "refetch"])
    /\ UNCHANGED <<proc, currentState, config, stats, shown, observed, acted,
                   refused, din, dout>>

\* toggleReady rejects: it has no try/catch, so the rejection leaves the
\* async callback unhandled, which ends the process (the default of every
\* Node.js that runs tsx 4).
ToggleFailed(t) ==
    /\ proc = "running"
    /\ t.pc = "toggle"
    /\ proc' = "crashed"
    /\ ticks' = EmptyBag
    /\ UNCHANGED <<server, currentState, config, stats, shown, observed, acted,
                   refused, din, dout>>

\* The re-fetch of line 496 completes, then line 501 tests the status that
\* was destructured before the toggle.
Refetched(t, ok) ==
    /\ proc = "running"
    /\ t.pc = "refetch"
    /\ currentState' = updateState(ok)
    /\ Decide(t, t.status, updateState(ok))
    /\ UNCHANGED <<server, proc, config, stats, shown, observed, acted, refused,
                   din, dout>>

\* the authority takes an action only from the seat whose turn it is
CanAccept(s) == s.status \in Betting /\ MyTurn(s) /\ AbleToAct(s)

\* makeAction resolves: the action is applied and the turn passes on
ActionAccepted(t) ==
    /\ proc = "running"
    /\ t.pc = "action"
    /\ CanAccept(server)
    /\ server' = [server EXCEPT !.currentTurn = 1]
    /\ acted' = TRUE
    /\ refused' = FALSE
    /\ ticks' = Ended(t)
    /\ UNCHANGED <<proc, currentState, config, stats, shown, observed, din, dout>>

\* a sink wrapper that submits the action once more after a rejection
ActionRejectedRetried(t) ==
    /\ proc = "running"
    /\ t.pc = "action"
    /\ refused' = (refused \/ CanAccept(server))
    /\ ticks' = (IF t.nsub < 2 THEN Moved(t, [t EXCEPT !.nsub = @ + 1]) ELSE Ended(t))
    /\ UNCHANGED <<server, proc, currentState, config, stats, shown, observed,
                   acted, din, dout>>

\* makeAction rejects: the error is caught and logged (lines 410-412)
ActionRejected(t) ==
    /\ proc = "running"
    /\ t.pc = "action"
    /\ refused' = (refused \/ CanAccept(server))
    /\ ticks' = Ended(t)
    /\ UNCHANGED <<server, proc, currentState, config, stats, shown, observed,
                   acted, din, dout>>

\* SIGINT (lines 591-598): stop() clears the interval, the statistics are
\* printed and process.exit(0) ends the process in the same handler run;
\* callbacks suspended at an await are never resumed
Interrupt ==
    /\ proc = "running"
    /\ proc' = "exited"
    /\ ticks' = EmptyBag
    /\ UNCHANGED <<server, currentState, config, stats, shown, observed, acted,
                   refused, din, dout>>

----------------------------------------------------------------------------
(* The polling loop *)

NoStats ==
    [wins |-> 0, losses |-> 0, totalHands |-> 0, successfulBluffs |-> 0,
     failedBluffs |-> 0]

NoInput == [handStrength |-> 0]
NoOutput == [action |-> "none"]

Init ==
    /\ server \in {s \in Scenes : s.status = "WAITING"}
    /\ proc = "main"
    /\ currentState = Null
    /\ ticks = EmptyBag
    /\ config = getDefaultStrategy
    /\ stats = NoStats
    /\ shown = FALSE
    /\ observed = 0
    /\ acted = FALSE
    /\ refused = FALSE
    /\ din = NoInput
    /\ dout = NoOutput

Next ==
    \/ Authority
    \/ MainUpdateState
    \/ TimerFires
    \/ \E t \in InFlight : TickFetched(t, TRUE)
    \/ \E t \in InFlight : TickFetched(t, FALSE)
    \/ \E t \in InFlight : ToggleApplied(t)
    \/ \E t \in InFlight : ToggleFailed(t)
    \/ \E t \in InFlight : Refetched(t, TRUE)
    \/ \E t \in InFlight : Refetched(t, FALSE)
    \/ \E t \in InFlight : ActionAccepted(t)
    \/ \E t \in InFlight : ActionRejected(t)
    \/ Interrupt

Spec == Init /\ [][Next]_vars

----------------------------------------------------------------------------
(* The loop under the strategy parameters adaptStrategy can leave behind *)

AllWon == [NoStats EXCEPT !.wins = 1, !.totalHands = 1]
AllLost == [NoStats EXCEPT !.losses = 1, !.totalHands = 1]

Configs ==
    { getDefaultStrategy,
      adaptStrategy(getDefaultStrategy, AllLost),
      adaptStrategy(getDefaultStrategy, AllWon) }

\* the configurations the loop is run under
LoopConfigs == {getDefaultStrategy, adaptStrategy(getDefaultStrategy, AllWon)}

InitCfg ==
    /\ server \in {s \in Scenes : s.status = "WAITING"}
    /\ proc = "main"
    /\ currentState = Null
    /\ ticks = EmptyBag
    /\ config \in LoopConfigs
    /\ stats = NoStats
    /\ shown = FALSE
    /\ observed = 0
    /\ acted = FALSE
    /\ refused = FALSE
    /\ din = NoInput
    /\ dout = NoOutput

SpecCfg == InitCfg /\ [][Next]_vars

----------------------------------------------------------------------------
(* StrategyEngine.decide called on its own *)

HandStrengths == {0, 25, 30, 40, 45, 50, 55, 60, 70, 75, 85, 100}
CallAmounts == {0, 10, 20, 100, 500}
Pots == {0, 30, 100}
Stacks == {0, 50, 200, 1000}
CurrentBets == {0, 20, 100, 500}

\* callAmount is currentBet less the agent's own bet, which is not negative
DecideInputs ==
    { i \in [handStrength : HandStrengths, callAmount : CallAmounts, pot : Pots,
             chips : Stacks, currentBet : CurrentBets] :
        i.callAmount <= i.currentBet }

InitDecide ==
    /\ server \in {s \in Scenes : s.status = "WAITING" /\ HasMe(s)}
    /\ proc = "main"
    /\ currentState = Null
    /\ ticks = EmptyBag
    /\ config \in Configs
    /\ stats = NoStats
    /\ shown = FALSE
    /\ observed = 0
    /\ acted = FALSE
    /\ refused = FALSE
    /\ din \in DecideInputs
    /\ dout = NoOutput

\* one call of decide: the bluff is drawn, then the table is walked
DecideCall ==
    /\ dout = NoOutput
    /\ \E shouldBluff \in BluffDraws(config) :
           dout' = [shouldBluff |-> shouldBluff,
                    decision |-> decide(config, shouldBluff, din.handStrength,
                                        din.callAmount, din.pot, din.chips,
                                        din.currentBet)]
    /\ UNCHANGED <<server, proc, currentState, ticks, config, stats, shown,
                   observed, acted, refused, din>>

NextDecide == DecideCall

SpecDecide == InitDecide /\ [][NextDecide]_vars

----------------------------------------------------------------------------
(* StrategyEngine's recordResult, adaptStrategy and getStats called on their own *)

MaxResults == 10

\* configurations in [0, 1] an engine may be customised to start from
StartConfigs ==
    { getDefaultStrategy,
      [raiseThreshold |-> 100, callThreshold |-> 50, foldThreshold |-> 100,
       bluffProbability |-> 0, aggressiveness |-> 100],
      [raiseThreshold |-> 0, callThreshold |-> 0, foldThreshold |-> 0,
       bluffProbability |-> 100, aggressiveness |-> 0],
      [raiseThreshold |-> 75, callThreshold |-> 40, foldThreshold |-> 45,
       bluffProbability |-> 10, aggressiveness |-> 95] }

\* din counts the recordResult calls made and those with won = true
NoCalls == [calls |-> 0, won |-> 0]

InitEngine ==
    /\ server \in {s \in Scenes : s.status = "WAITING" /\ HasMe(s)}
    /\ proc = "main"
    /\ currentState = Null
    /\ ticks = EmptyBag
    /\ config \in StartConfigs
    /\ stats = NoStats
    /\ shown = FALSE
    /\ observed = 0
    /\ acted = FALSE
    /\ refused = FALSE
    /\ din = NoCalls
    /\ dout = NoOutput

\* strategy.recordResult(won); the call of adaptStrategy in it is commented out
RecordResultCall ==
    /\ stats.totalHands < MaxResults
    /\ \E won \in BOOLEAN :
           /\ stats' = recordResult(stats, won)
           /\ config' = recordResultConfig(config, stats, won)
           /\ dout' = [call |-> "recordResult", won |-> won]
           /\ din' = [calls |-> din.calls + 1,
                      won |-> IF won THEN din.won + 1 ELSE din.won]
    /\ UNCHANGED <<server, proc, currentState, ticks, shown, observed, acted,
                   refused>>

\* strategy.adaptStrategy()
AdaptStrategyCall ==
    /\ config' = adaptStrategy(config, stats)
    /\ dout' = [call |-> "adaptStrategy"]
    /\ UNCHANGED <<server, proc, currentState, ticks, stats, shown, observed, acted,
                   refused, din>>

\* strategy.getStats()
GetStatsCall ==
    /\ dout' = [call |-> "getStats", stats |-> getStats(stats)]
    /\ UNCHANGED <<server, proc, currentState, ticks, config, stats, shown, observed,
                   acted, refused, din>>

NextEngine == RecordResultCall \/ AdaptStrategyCall \/ GetStatsCall

SpecEngine == InitEngine /\ [][NextEngine]_vars

\* the same calls on an engine as its constructor leaves it (line 163)
InitFromDefault == InitEngine /\ config = getDefaultStrategy

SpecFromDefault == InitFromDefault /\ [][NextEngine]_vars

----------------------------------------------------------------------------
(* decide called on an engine under any of the configurations above: the *)
(* default, an adapted one, or a customised one whose thresholds need not *)
(* be in the order raise >= call >= fold                                  *)

InitDecideAny ==
    /\ server \in {s \in Scenes : s.status = "WAITING" /\ HasMe(s)}
    /\ proc = "main"
    /\ currentState = Null
    /\ ticks = EmptyBag
    /\ config \in Configs \cup StartConfigs
    /\ stats = NoStats
    /\ shown = FALSE
    /\ observed = 0
    /\ acted = FALSE
    /\ refused = FALSE
    /\ din \in DecideInputs
    /\ dout = NoOutput

SpecDecideAny == InitDecideAny /\ [][NextDecide]_vars

----------------------------------------------------------------------------
(* HandEvaluator.evaluate called on its own *)

\* the cards the hands are dealt from: a suit with the wheel, one rank in
\* all four suits, a second rank in three, and two side cards
Deck ==
    <<Card("A", "s"), Card("2", "s"), Card("3", "s"), Card("4", "s"),
      Card("5", "s"), Card("K", "s"), Card("K", "h"), Card("K", "d"),
      Card("K", "c"), Card("4", "h"), Card("4", "d"), Card("6", "d"),
      Card("9", "h")>>

\* community cards on the table: none, one (a partial snapshot), the flop,
\* the turn, the river
BoardSizes == {0, 1, 3, 4, 5}

\* the cards of the deck at the places in S, in the order of the deck
RECURSIVE Deal(_)
Deal(S) == IF S = {} THEN <<>> ELSE <<Deck[Min(S)]>> \o Deal(S \ {Min(S)})

\* hole cards: none, both hidden, one hidden, or two cards of the deck
HoleDeals ==
    {{}} \cup {{i} : i \in DOMAIN Deck}
         \cup {{i, j} : i, j \in DOMAIN Deck}

HoleCards(S, hidden) ==
    IF hidden /\ S = {} THEN <<Hidden, Hidden>>
    ELSE IF Cardinality(S) = 1 THEN Deal(S) \o <<Hidden>>
    ELSE Deal(S)

\* the calls with a board of one of the sizes given
EvaluateInputs(sizes) ==
    { [holeCards |-> HoleCards(h, hidden), communityCards |-> Deal(b)] :
        <<h, b, hidden>> \in
            { x \in HoleDeals \X (SUBSET (DOMAIN Deck)) \X BOOLEAN :
                /\ Cardinality(x[2]) \in sizes
                /\ x[1] \cap x[2] = {}
                /\ x[3] => x[1] = {} } }

InitEvaluate ==
    /\ server \in {s \in Scenes : s.status = "WAITING" /\ HasMe(s)}
    /\ proc = "main"
    /\ currentState = Null
    /\ ticks = EmptyBag
    /\ config = getDefaultStrategy
    /\ stats = NoStats
    /\ shown = FALSE
    /\ observed = 0
    /\ acted = FALSE
    /\ refused = FALSE
    /\ din \in EvaluateInputs(BoardSizes)
    /\ dout = NoOutput

\* one call of evaluate; the strength of the made hand, which the call holds
\* before it adds the bonuses, is kept beside the value returned
EvaluateCall ==
    /\ dout = NoOutput
    /\ LET cards == visible(din.holeCards, din.communityCards)
           strength == evaluate(din.holeCards, din.communityCards)
       IN  dout' = IF Len(cards) < 2 THEN [strength |-> strength]
                   ELSE [strength |-> strength, category |-> category(cards)]
    /\ UNCHANGED <<server, proc, currentState, ticks, config, stats, shown,
                   observed, acted, refused, din>>

NextEvaluate == EvaluateCall

SpecEvaluate == InitEvaluate /\ [][NextEvaluate]_vars

----------------------------------------------------------------------------
(* Properties *)

\* the number of callbacks waiting for the action sink
Pending(b) == BagCardinality([t \in {u \in BagToSet(b) : u.pc = "action"} |-> b[t]])

\* the number of callbacks waiting for the ready-toggle
Toggling(b) == BagCardinality([t \in {u \in BagToSet(b) : u.pc = "toggle"} |-> b[t]])

\* this step sends an action to the sink
NewSubmission == Pending(ticks') > Pending(ticks)

\* this step sends a ready-toggle
NewToggle == Toggling(ticks') > Toggling(ticks)

\* this step puts callback state u in flight, waiting for the action sink
Submits(u) == u.pc = "action" /\ CopiesIn(u, ticks') > CopiesIn(u, ticks)

\* C1: ticks are strictly serialized: no two interval callbacks are ever in
\* progress at the same time, whatever the round trips last
TicksSerialized == BagCardinality(ticks) <= 1

\* C2: recordResult is called exactly once per hand whose SHOWDOWN with
\* winner information a tick has observed: totalHands counts those hands
RecordedOncePerHand == stats.totalHands = observed

\* C3: once the sink has accepted an action for the agent's turn, no tick
\* submits another action until the authority reports a new turn
OneActionPerTurn == [][NewSubmission => ~acted]_vars

\* C4: a tick whose state fetch fails is skipped: it submits no action, sends
\* no ready-toggle and records no result
FailedFetchSkipsTick ==
    [][(\E t \in InFlight : TickFetched(t, FALSE))
          => (~NewSubmission /\ ~NewToggle /\ stats' = stats)]_vars

\* C5: no failure of a collaborator ends the loop: the process never dies of
\* an error that escaped a tick
LoopSurvives == proc # "crashed"

\* C6: a rejection by the action sink ends the tick's submission without a
\* second one, and a later tick whose fetch still shows the agent's turn
\* decides afresh from that snapshot and submits one action
RejectionNotRetried ==
    [][/\ \A t \in InFlight :
              ActionRejected(t) => (Pending(ticks') < Pending(ticks) /\ t.nsub = 1)
       /\ ( /\ refused
            /\ server.status \in {"PREFLOP", "FLOP", "TURN", "RIVER"}
            /\ SeatAt(server) = Me
            /\ Me \in DOMAIN server.players
            /\ ~server.players[Me].folded
            /\ ~server.players[Me].allIn
            /\ \E t \in InFlight : TickFetched(t, TRUE) )
          => \E u \in BagToSet(ticks') :
                 /\ Submits(u)
                 /\ u.nsub = 1
                 /\ u.retry
                 /\ u.act \in autonomousDecision(server, config)]_vars

\* a tick has submitted again after the sink rejected an action of this turn
ResubmittedAfterRejection ==
    \E t \in InFlight : t.pc = "action" /\ t.retry /\ t.nsub = 1

\* C7: an action is submitted only from a fetched snapshot in a betting
\* phase whose current-turn seat is the agent's and whose record of the agent
\* exists and is neither folded nor all-in, and a tick submits at most one
ActsOnlyOnOwnTurn ==
    [][/\ NewSubmission =>
              /\ currentState' # Null
              /\ currentState'.status \in {"PREFLOP", "FLOP", "TURN", "RIVER"}
              /\ currentState'.seats[currentState'.currentTurn + 1] = Me
              /\ Me \in DOMAIN currentState'.players
              /\ ~currentState'.players[Me].folded
              /\ ~currentState'.players[Me].allIn
       /\ \A u \in BagToSet(ticks') : u.nsub <= 1]_vars

\* a tick has submitted a CALL and waits for the sink
CallSubmitted ==
    \E t \in InFlight : t.pc = "action" /\ t.act = [action |-> "CALL"] /\ t.nsub = 1

\* C8: on the agent's turn with a hidden hole card the tick submits CHECK
\* when nothing is owed and FOLD when something is, under every strategy
\* configuration and every bluff draw
HiddenCardChecksOrFolds ==
    [][LET cs == currentState'
       IN  ( /\ cs # Null
             /\ cs.status \in {"PREFLOP", "FLOP", "TURN", "RIVER"}
             /\ cs.seats[cs.currentTurn + 1] = Me
             /\ Me \in DOMAIN cs.players
             /\ ~cs.players[Me].folded
             /\ ~cs.players[Me].allIn
             /\ Card("?", "?") \in Range(cs.players[Me].holeCards)
             /\ \E t \in InFlight : TickFetched(t, TRUE) \/ TickFetched(t, FALSE) )
           => \E u \in BagToSet(ticks') :
                  /\ Submits(u)
                  /\ u.act = [action |-> IF cs.currentBet - cs.players[Me].bet = 0
                                         THEN "CHECK" ELSE "FOLD"]]_vars

\* under an adapted configuration a tick has folded a hand it cannot see
HiddenCardFolded ==
    /\ config # getDefaultStrategy
    /\ currentState # Null
    /\ currentState.status = "FLOP"
    /\ Card("?", "?") \in Range(currentState.players[Me].holeCards)
    /\ currentState.currentBet - currentState.players[Me].bet = 10
    /\ \E t \in InFlight : t.pc = "action" /\ t.act = [action |-> "FOLD"]

\* the ordered decision table on the strength eff (in hundredths)
TableAction(cfg, eff, callAmount, pot, chips) ==
    IF callAmount = 0 THEN (IF eff >= cfg.raiseThreshold THEN "RAISE" ELSE "CHECK")
    ELSE IF eff >= cfg.raiseThreshold THEN
        (IF 10 * callAmount < 5 * chips THEN "RAISE" ELSE "CALL")
    ELSE IF eff >= cfg.callThreshold THEN
        (IF 10 * callAmount < 4 * (pot + callAmount) \/ 10 * callAmount < 2 * chips
         THEN "CALL" ELSE "FOLD")
    ELSE IF eff >= cfg.foldThreshold THEN
        (IF 10 * callAmount < 2 * (pot + callAmount) /\ 10 * callAmount < chips
         THEN "CALL" ELSE "FOLD")
    ELSE "FOLD"

\* C9: decide returns the action of the ordered decision table applied to
\* the effective strength and the pot odds callAmount / (pot + callAmount);
\* pot 100, callAmount 20, strength 0.5, default configuration and no bluff
\* give CALL
DecideFollowsTable ==
    dout # NoOutput =>
        /\ dout.decision.action =
               TableAction(config,
                           IF dout.shouldBluff
                           THEN (IF din.handStrength + 30 < 100
                                 THEN din.handStrength + 30 ELSE 100)
                           ELSE din.handStrength,
                           din.callAmount, din.pot, din.chips)
        /\ ( /\ din.pot = 100 /\ din.callAmount = 20 /\ din.handStrength = 50
             /\ config = getDefaultStrategy /\ ~dout.shouldBluff )
           => dout.decision.action = "CALL"

\* decide has returned CALL on pot 100, callAmount 20, strength 0.5
ScenarioCalled ==
    /\ dout # NoOutput
    /\ din.pot = 100 /\ din.callAmount = 20 /\ din.handStrength = 50
    /\ config = getDefaultStrategy
    /\ ~dout.shouldBluff
    /\ dout.decision = [action |-> "CALL"]

\* C10: with nothing to call and a strength of at least raiseThreshold,
\* decide returns RAISE with an amount of at least currentBet, on every
\* bluff draw
FreeStrongHandRaises ==
    ( /\ dout # NoOutput
      /\ din.callAmount = 0
      /\ din.handStrength >= config.raiseThreshold )
    => /\ dout.decision.action = "RAISE"
       /\ dout.decision.amount >= din.currentBet

\* decide has raised a strong hand for free over a standing bet
FreeRaiseOverBet ==
    /\ dout # NoOutput
    /\ din.callAmount = 0
    /\ din.handStrength >= config.raiseThreshold
    /\ din.currentBet > 0
    /\ dout.decision.action = "RAISE"
    /\ dout.decision.amount > din.currentBet

RaiseSizedOnRawStrength ==
    (dout # NoOutput /\ dout.decision.action = "RAISE")
    => dout.decision.amount =
           din.currentBet
           + (LET raiseAmount ==
                      (din.pot * (10000 + config.aggressiveness * din.handStrength))
                          \div 20000
                  maxBet == (din.chips * 7) \div 10
              IN  IF raiseAmount <= maxBet THEN raiseAmount ELSE maxBet)

\* C13: the amount of every RAISE decide returns is a total bet between
\* currentBet and currentBet + floor(0.7 * chips)
RaiseWithinStackCap ==
    (dout # NoOutput /\ dout.decision.action = "RAISE")
    => /\ din.currentBet <= dout.decision.amount
       /\ 10 * (dout.decision.amount - din.currentBet) <= 7 * din.chips

\* decide has returned a RAISE that the cap of 70% of the stack cut down
RaiseCutByCap ==
    /\ dout # NoOutput
    /\ dout.decision.action = "RAISE"
    /\ din.chips = 50
    /\ din.pot = 100
    /\ dout.decision.amount = din.currentBet + 35

\* C14: every RAISE sent to the action sink carries a numeric total-bet
\* amount; a RAISE is never sent without one, pot = 0 and currentBet = 0
\* included
RaiseCarriesAmount ==
    \A t \in InFlight :
        (t.pc = "action" /\ t.act.action = "RAISE") => "amount" \in DOMAIN t.act

\* C15: after an adaptStrategy call that tightens (win rate below 0.3),
\* raiseThreshold <= 0.8, foldThreshold <= 0.5 and bluffProbability >= 0.05;
\* after one that loosens (win rate above 0.7), raiseThreshold >= 0.4 and
\* aggressiveness <= 1.0; from any starting configuration in [0, 1]
AdaptationStaysClamped ==
    (dout # NoOutput /\ dout.call = "adaptStrategy" /\ stats.totalHands > 0)
    => /\ 10 * stats.wins < 3 * stats.totalHands
              => /\ config.raiseThreshold <= 80
                 /\ config.foldThreshold <= 50
                 /\ config.bluffProbability >= 5
       /\ 10 * stats.wins > 7 * stats.totalHands
              => /\ config.raiseThreshold >= 40
                 /\ config.aggressiveness <= 100

\* a tightening call has brought a starting raiseThreshold of 1.0 down to 0.8
\* and a bluffProbability of 0 up to 0.05
TightenedToTheClamps ==
    /\ dout # NoOutput
    /\ dout.call = "adaptStrategy"
    /\ stats.totalHands = 2
    /\ stats.wins = 0
    /\ config.raiseThreshold = 80
    /\ config.foldThreshold = 50
    /\ config.bluffProbability = 5
    /\ config.aggressiveness = 100

\* C16: adaptStrategy leaves all five parameters unchanged when the win
\* rate wins / totalHands lies in [0.3, 0.7], and when no hand has been
\* recorded
MidWinRateLeavesConfig ==
    [][( /\ dout' # NoOutput
         /\ dout'.call = "adaptStrategy"
         /\ \/ stats.totalHands = 0
            \/ /\ 10 * stats.wins >= 3 * stats.totalHands
               /\ 10 * stats.wins <= 7 * stats.totalHands )
       => config' = config]_vars

\* adaptStrategy has returned at a win rate of exactly 0.3 and left a
\* customised configuration as it was
AdaptedAtThreeInTen ==
    /\ dout # NoOutput
    /\ dout.call = "adaptStrategy"
    /\ stats.wins = 3
    /\ stats.totalHands = 10
    /\ config.raiseThreshold = 75
    /\ config.aggressiveness = 95

CountersFollowResults ==
    /\ stats.wins = din.won
    /\ stats.losses = din.calls - din.won
    /\ stats.totalHands = din.calls
    /\ stats.wins + stats.losses = stats.totalHands
    /\ stats'.wins + stats'.losses = stats'.totalHands
    /\ stats'.wins >= stats.wins
    /\ stats'.losses >= stats.losses
    /\ stats'.totalHands >= stats.totalHands
    /\ stats'.successfulBluffs >= stats.successfulBluffs
    /\ stats'.failedBluffs >= stats.failedBluffs

\* C18: after N recordResult calls of which W were won, wins = W,
\* losses = N - W, totalHands = N and the win rate getStats reports is
\* W / N exactly (0 when N = 0); wins + losses = totalHands in every state
\* and no counter decreases
WinRateIsExactRatio ==
    [][/\ CountersFollowResults
       /\ (dout' # NoOutput /\ dout'.call = "getStats")
              => /\ dout'.stats.wins = din.won
                 /\ dout'.stats.totalHands = din.calls
                 /\ dout'.stats.winRate * din.calls = 1000 * din.won]_vars

\* C18 as amended: the same, the reported win rate being W / N as a
\* percentage rounded to one decimal place ('0%' when N = 0)
WinRateIsRoundedRatio ==
    [][/\ CountersFollowResults
       /\ (dout' # NoOutput /\ dout'.call = "getStats")
              => /\ dout'.stats.wins = din.won
                 /\ dout'.stats.totalHands = din.calls
                 /\ din.calls = 0 => dout'.stats.winRate = 0
                 /\ 2 * (dout'.stats.winRate * din.calls - 1000 * din.won) <= din.calls
                 /\ 2 * (1000 * din.won - dout'.stats.winRate * din.calls) <= din.calls]_vars

\* getStats has reported 33.3% after one win in three hands
OneInThreeReported ==
    /\ dout # NoOutput
    /\ dout.call = "getStats"
    /\ din = [calls |-> 3, won |-> 1]
    /\ dout.stats.winRate = 333
    /\ dout.stats.losses = 2

\* C19: a ready-toggle is sent in a tick only when the phase is WAITING or
\* SHOWDOWN and the agent is in players with ready = false, at most once per
\* tick, and never while the game is in PREFLOP, FLOP, TURN or RIVER
TogglesOnlyBetweenHands ==
    [][/\ NewToggle =>
              /\ currentState' # Null
              /\ currentState'.status \in {"WAITING", "SHOWDOWN"}
              /\ Me \in DOMAIN currentState'.players
              /\ ~currentState'.players[Me].ready
              /\ server.status \notin {"PREFLOP", "FLOP", "TURN", "RIVER"}
       /\ \A u \in BagToSet(ticks') : u.ntog <= 1]_vars

\* C20: on an interrupt no new tick starts, and a tick in flight is not
\* aborted: the process exits only once every tick that had started has run
\* to its end
InterruptLetsTicksFinish ==
    [][/\ proc' = "exited" => ticks = EmptyBag
       /\ proc = "exited" => ticks' = EmptyBag]_vars

----------------------------------------------------------------------------
(* The hand evaluate was called with, read from the cards themselves *)

Dealt == din.holeCards \o din.communityCards

\* the places of the cards that are not the hidden sentinel
Seen == {i \in DOMAIN Dealt : Dealt[i] # Hidden}

RankAt(i) == normalizeRank(Dealt[i].rank)

OfRank(r) == {i \in Seen : RankAt(i) = r}

OfSuit(s) == {i \in Seen : Dealt[i].suit = s}

SeenRanks == {RankAt(i) : i \in Seen}

SeenSuits == {Dealt[i].suit : i \in Seen}

Evaluated == dout # NoOutput

\* C21: whenever fewer than 2 cards remain once the hidden-sentinel cards
\* are removed from the hole cards and the community cards, evaluate
\* returns exactly 0.3
FewVisibleCardsScoreLow ==
    (Evaluated /\ Cardinality(Seen) < 2) => dout.strength = 30

\* evaluate has returned 0.3 for two hidden hole cards and a single King
\* on the table
LoneKingScoredLow ==
    /\ Evaluated
    /\ din.holeCards = <<Hidden, Hidden>>
    /\ din.communityCards = <<Card("K", "s")>>
    /\ dout.strength = 30

\* C22: evaluate returns a value in [0.3, 1.0] for every input, and a
\* value of at least 0.95 and at most 1.0 for every input whose visible
\* cards hold four cards of one rank, whatever draw bonuses apply
StrengthInRange ==
    Evaluated =>
        /\ dout.strength >= 30
        /\ dout.strength <= 100
        /\ (\E r \in SeenRanks : Cardinality(OfRank(r)) >= 4)
               => dout.strength >= 95

\* evaluate has returned 1.0 for four Kings with four spades among the
\* cards: 0.95 and the flush-draw bonus, clamped
FourKingsClamped ==
    /\ Evaluated
    /\ Cardinality(OfRank(13)) = 4
    /\ Cardinality(OfSuit("s")) = 4
    /\ dout.strength = 100

\* the hand categories, read from the visible cards
FourOfAKind == \E r \in SeenRanks : Cardinality(OfRank(r)) = 4

FullHouse ==
    \E r, q \in SeenRanks :
        r # q /\ Cardinality(OfRank(r)) = 3 /\ Cardinality(OfRank(q)) = 2

Flush == \E s \in SeenSuits : Cardinality(OfSuit(s)) >= 5

\* five consecutive ranks, or the wheel A-2-3-4-5
FiveInSequence ==
    \/ \E low \in SeenRanks : \A k \in 0..4 : low + k \in SeenRanks
    \/ {14, 2, 3, 4, 5} \subseteq SeenRanks

ThreeOfAKind == \E r \in SeenRanks : Cardinality(OfRank(r)) = 3

TwoPair ==
    \E r, q \in SeenRanks :
        r # q /\ Cardinality(OfRank(r)) = 2 /\ Cardinality(OfRank(q)) = 2

OnePair == \E r \in SeenRanks : Cardinality(OfRank(r)) = 2

\* the values of the first category in the order of precedence that the
\* hand satisfies
FirstCategory ==
    IF FourOfAKind THEN {95}
    ELSE IF FullHouse THEN {90}
    ELSE IF Flush THEN {85}
    ELSE IF FiveInSequence THEN {80}
    ELSE IF ThreeOfAKind THEN {70}
    ELSE IF TwoPair THEN {60}
    ELSE IF OnePair THEN {45, 55}
    ELSE {30, 40}

\* C23: the base value of evaluate is that of the first category the hand
\* satisfies in the order four of a kind 0.95, full house 0.90, flush 0.85,
\* straight 0.80, three of a kind 0.70, two pair 0.60, one pair, high card
CategoryByPrecedence ==
    (Evaluated /\ Cardinality(Seen) >= 2) => dout.category \in FirstCategory

\* C24: evaluate gives the straight category (base 0.80) only to a hand
\* whose distinct visible ranks hold five consecutive ranks or the wheel
\* A-2-3-4-5; a hand with at most four ranks in sequence is never scored
\* as a straight
StraightOnlyOnFiveInSequence ==
    (Evaluated /\ Cardinality(Seen) >= 2 /\ dout.category = 80) => FiveInSequence

\* the conditions of the two draw bonuses, read from the visible cards:
\* the largest suit holds exactly four cards
FourOfOneSuit ==
    /\ \E s \in SeenSuits : Cardinality(OfSuit(s)) = 4
    /\ \A s \in SeenSuits : Cardinality(OfSuit(s)) <= 4

\* of at least four distinct ranks, five are consecutive, or the four
\* lowest lie within a span of five, or an Ace and a Two are among them
StraightDrawCondition ==
    /\ Cardinality(SeenRanks) >= 4
    /\ \/ \E low \in SeenRanks : \A k \in 0..4 : low + k \in SeenRanks
       \/ \E r \in SeenRanks :
              /\ Cardinality({q \in SeenRanks : q < r}) = 3
              /\ r - Min(SeenRanks) <= 4
       \/ {14, 2} \subseteq SeenRanks

NoDrawBonus == ~FourOfOneSuit /\ ~StraightDrawCondition

PairedRanks == {r \in SeenRanks : Cardinality(OfRank(r)) = 2}

\* one rank is paired and every other rank is single
JustOnePair ==
    /\ Cardinality(PairedRanks) = 1
    /\ \A r \in SeenRanks : Cardinality(OfRank(r)) <= 2

NoPair == \A r \in SeenRanks : Cardinality(OfRank(r)) = 1

PairBand == IF \A r \in PairedRanks : r >= 10 THEN 55 ELSE 45

HighCardBand == IF Max(SeenRanks) >= 12 THEN 40 ELSE 30

\* C25: a hand scored as one pair has the base value 0.55 if the paired
\* rank is ten or higher and 0.45 otherwise, a hand scored as high card has
\* 0.40 if its highest rank is queen or above and 0.30 otherwise; with no
\* draw bonus applying, evaluate returns these values for one-pair and
\* high-card hands, so a pair of a higher rank never scores below a pair of
\* a lower rank
PairAndHighCardBands ==
    (Evaluated /\ Cardinality(Seen) >= 2) =>
        /\ dout.category \in {45, 55}
               => JustOnePair /\ dout.category = PairBand
        /\ dout.category \in {30, 40}
               => NoPair /\ dout.category = HighCardBand
        /\ (JustOnePair /\ ~Flush /\ NoDrawBonus) => dout.strength = PairBand
        /\ (NoPair /\ ~Flush /\ NoDrawBonus) => dout.strength = HighCardBand

\* evaluate has returned 0.45 for a pair of Fours on a board that pairs
\* nothing and offers no draw
PairOfFoursScored ==
    /\ Evaluated
    /\ din.holeCards = <<Card("4", "s"), Card("4", "h")>>
    /\ Len(din.communityCards) = 3
    /\ NoDrawBonus
    /\ PairedRanks = {4}
    /\ dout = [strength |-> 45, category |-> 45]

\* C26: the value evaluate returns is the base value of the matched
\* category, plus 0.15 exactly when the largest suit count is four, plus
\* 0.10 exactly when the straight-draw condition holds, whichever category
\* matched, clamped to at most 1.0
BonusesAddToCategory ==
    (Evaluated /\ Cardinality(Seen) >= 2) =>
        dout.strength =
            MinOf(dout.category + (IF FourOfOneSuit THEN 15 ELSE 0)
                                + (IF StraightDrawCondition THEN 10 ELSE 0), 100)

\* evaluate has returned 0.95 for three of a kind with four cards of one
\* suit and a straight draw: 0.70 and both bonuses
TripsWithBothDraws ==
    /\ Evaluated
    /\ Cardinality(Seen) >= 2
    /\ ThreeOfAKind
    /\ FourOfOneSuit
    /\ StraightDrawCondition
    /\ dout = [strength |-> 95, category |-> 70]

\* C28: the controller never un-readies itself: once a ready-toggle of its
\* own was applied and the authority has the agent marked ready, it sends no
\* further ready-toggle, whatever the interleaving of ticks and whichever
\* fetches fail (in the model only the agent's own toggle sets the flag)
NeverUnreadies ==
    [][NewToggle => ~ReadyOf(server)]_vars

\* C29: a RAISE the controller submits never requires more chips than the
\* agent has: the amount less the agent's own bet of the street (currentBet
\* less callAmount) is at most its chips
RaiseWithinChips ==
    (/\ dout # NoOutput
     /\ dout.decision.action = "RAISE"
     /\ dout.decision.amount # 0)
        => dout.decision.amount - (din.currentBet - din.callAmount) <= din.chips

\* C30: starting from the default config, every sequence of recordResult
\* and adaptStrategy calls keeps the tightness ordering
\* raiseThreshold >= callThreshold >= foldThreshold
TightnessOrderingKept ==
    /\ config.raiseThreshold >= config.callThreshold
    /\ config.callThreshold >= config.foldThreshold

\* how active an action is: FOLD < CHECK, CALL < RAISE
ActionRank(a) ==
    CASE a = "FOLD" -> 0
      [] a \in {"CHECK", "CALL"} -> 1
      [] a = "RAISE" -> 2
      [] OTHER -> 3

\* the strength the decision table is applied to
EffectiveOf(handStrength, shouldBluff) ==
    IF shouldBluff THEN MinOf(handStrength + 30, 100) ELSE handStrength

\* C31: decide is monotone in strength: with callAmount, pot, chips,
\* currentBet and config fixed, no call with a lower or equal effective
\* strength gets a more active action than the one returned; in particular
\* the bluff never turns a CALL or RAISE into a FOLD nor a RAISE into a
\* CALL or CHECK
DecideMonotone ==
    dout # NoOutput =>
        \A h \in HandStrengths, b \in BOOLEAN :
            EffectiveOf(h, b) <= EffectiveOf(din.handStrength, dout.shouldBluff)
                => ActionRank(decide(config, b, h, din.callAmount, din.pot,
                                     din.chips, din.currentBet).action)
                       <= ActionRank(dout.decision.action)

\* under the default config the bluff has turned the CALL of a hand of
\* strength 0.3 into a RAISE
BluffTurnedCallIntoRaise ==
    /\ dout # NoOutput
    /\ config = getDefaultStrategy
    /\ din.handStrength = 30 /\ din.callAmount = 20 /\ din.pot = 100
    /\ din.chips = 1000
    /\ dout.shouldBluff
    /\ dout.decision.action = "RAISE"
    /\ decide(config, FALSE, 30, 20, 100, 1000, din.currentBet) = Plain("CALL")

\* C32: decide never returns ALL_IN, returns CHECK only when callAmount = 0
\* and CALL only when callAmount # 0, and never returns FOLD when
\* callAmount = 0: the agent never folds when acting is free
FreeActionNeverFolds ==
    dout # NoOutput =>
        /\ dout.decision.action \in {"FOLD", "CHECK", "CALL", "RAISE"}
        /\ dout.decision.action = "CHECK" => din.callAmount = 0
        /\ dout.decision.action = "CALL" => din.callAmount # 0
        /\ dout.decision.action = "FOLD" => din.callAmount # 0

\* decide has returned CHECK for the weakest hand, below every fold
\* threshold but that of the all-zero config, when nothing was to call
WeakestHandChecked ==
    /\ dout # NoOutput
    /\ din.callAmount = 0
    /\ din.handStrength < config.foldThreshold
    /\ ~dout.shouldBluff
    /\ dout.decision = Plain("CHECK")

====
